---- MODULE Spec2Model ----
(***************************************************************************)
(* Model of assets/js/github-integration.js: the GitHubIntegration class   *)
(* (time-based cache in front of fetch, the repository-card updater, the   *)
(* footer updater, init and its setInterval timer) together with the       *)
(* browser pieces it runs against: the event loop (a task runs to          *)
(* completion, awaits resume as microtasks of the task that settles them), *)
(* the network, the clock and the page's DOM.                              *)
(*                                                                         *)
(* Time is in milliseconds, as Date.now() reports it.                      *)
(***************************************************************************)
EXTENDS Integers, Sequences, FiniteSets, TLC

(* --------------------------- program constants ------------------------- *)

\* constructor: this.cacheExpiry = 5 * 60 * 1000
cacheExpiry == 5 * 60 * 1000
\* init: setInterval(..., 5 * 60 * 1000)
Interval == 5 * 60 * 1000

(* ------------------------------ bounds --------------------------------- *)

\* Granularity of the clock: half the TTL, so that ages below, at and above
\* the TTL all occur.
TimeStep == cacheExpiry \div 2
\* The clock advances this many times.
MaxClock == 4
MaxTime == MaxClock * TimeStep

\* updateRepositoryCards: repository names that can be tracked (one letter
\* stands for one name; names are character sequences so that
\* String.includes is a real substring test). A run tracks a prefix of this
\* list, see the variable repoNames.
AllRepoNames == << <<"a">>, <<"b">> >>

(* ------------------------------ JSON values ---------------------------- *)

\* JavaScript null / undefined result.
Null == [kind |-> "null"]
IsNull(x) == x.kind = "null"

MsPerDay == 24 * 60 * 60 * 1000

IndexOf(name) == CHOOSE i \in 1..Len(AllRepoNames) : AllRepoNames[i] = name

\* The data GitHub serves changes once per interval; a response carries the
\* data as it was when the request was issued at time t.
VersionAt(t) == 1 + t \div Interval

\* GET /repos/{user}/{repo} when the upstream data is at version v.
RepoJson(name, v) ==
    [kind |-> "repo",
     stargazers_count |-> 10 * v + IndexOf(name),
     forks_count |-> v,
     open_issues_count |-> v - 1,
     language |-> "Kotlin",
     updated_at |-> v * MsPerDay + 3600000,
     size |-> 1536 * v]

\* GET /repos/{user}/{repo}/releases/latest
ReleaseJson(name, v) ==
    [kind |-> "release",
     tag_name |-> <<"v", v, IndexOf(name)>>,
     published_at |-> v * MsPerDay + 7200000]

\* A 9-character stand-in for the 40-character commit hash.
ShaOf(v) == <<v, 1, 2, 3, 4, 5, 6, 7, 8>>
\* The newest commit of version v was authored 45 s before that version
\* was first served.
CommitDate(v) == (v - 1) * Interval - 45000

\* GET /repos/{user}/{user}.github.io/commits?per_page=1
CommitsJson(v) ==
    [kind |-> "commits",
     list |-> << [sha |-> ShaOf(v), date |-> CommitDate(v)] >>]

(* ------------------------------ cache keys ----------------------------- *)

RepoKey(name) == <<"repo", name>>
ReleaseKey(name) == <<"release", name>>
LastCommitKey == <<"last_commit">>
\* Keys fetched by updateRepositoryCards, and by a whole update cycle, when
\* the tracked names are `names`.
CardKeysOf(names) ==
    {RepoKey(names[i]) : i \in 1..Len(names)} \cup {ReleaseKey(names[i]) : i \in 1..Len(names)}
KeysOf(names) == CardKeysOf(names) \cup {LastCommitKey}

\* What the network answers, when it answers, to the request behind key k
\* issued at time t.
Upstream(k, t) ==
    IF k = LastCommitKey THEN CommitsJson(VersionAt(t))
    ELSE IF k[1] = "repo" THEN RepoJson(k[2], VersionAt(t))
    ELSE ReleaseJson(k[2], VersionAt(t))

\* this.cache.get(k) === undefined
Undefined == [has |-> FALSE, data |-> Null, timestamp |-> 0]
Entry(d, t) == [has |-> TRUE, data |-> d, timestamp |-> t]

(* --------------------------- fetchWithCache ---------------------------- *)

\* An invocation of fetchWithCache that has not been made (or whose result has
\* been consumed by its caller).
Idle == [status |-> "idle", now |-> 0, cached |-> Undefined, result |-> Null, threw |-> FALSE]

\* The hit test with the TTL taken in seconds instead of milliseconds.
IsFreshSeconds(cached, t) == cached.has /\ t - cached.timestamp < 5 * 60

\* The hit test with <= in place of <.
IsFreshInclusive(cached, t) == cached.has /\ t - cached.timestamp <= cacheExpiry

\* The hit test: cached && now - cached.timestamp < this.cacheExpiry
IsFresh(cached, t) == cached.has /\ t - cached.timestamp < cacheExpiry

\* fetchWithCache up to its first await: read the clock and the cache, return
\* the cached data on a hit, otherwise issue fetch(url) and suspend, keeping
\* the locals now and cached.
fetchWithCache(k, t, cch) ==
    LET cached == cch[k] IN
    IF IsFresh(cached, t)
    THEN [status |-> "done", now |-> t, cached |-> cached, result |-> cached.data, threw |-> FALSE]
    ELSE [status |-> "inflight", now |-> t, cached |-> cached, result |-> Null, threw |-> FALSE]

\* The try branch keeping the timestamp of the entry it replaces.
fetchSucceededKeepsStamp(iv, data) ==
    [iv |-> [iv EXCEPT !.status = "done", !.result = data],
     write |-> TRUE,
     entry |-> Entry(data, IF iv.cached.has THEN iv.cached.timestamp ELSE iv.now)]

\* The try branch after the awaits: response.ok and response.json() succeeded.
\* Stores {data, timestamp: now} with the now read before the request and
\* returns data. iv: the suspended invocation; the result is the invocation
\* after it returned and the cache write it made.
fetchSucceeded(iv, data) ==
    [iv |-> [iv EXCEPT !.status = "done", !.result = data],
     write |-> TRUE,
     entry |-> Entry(data, iv.now)]

\* The catch branch without the fallback: always null.
fetchFailedNoFallback(iv) ==
    [iv |-> [iv EXCEPT !.status = "done", !.result = Null],
     write |-> FALSE,
     entry |-> Undefined]

\* The catch branch remembering the failure: stores null under the key.
fetchFailedCachesNull(iv) ==
    [iv |-> [iv EXCEPT !.status = "done",
                       !.result = IF iv.cached.has THEN iv.cached.data ELSE Null],
     write |-> TRUE,
     entry |-> Entry(Null, iv.now)]

\* The catch branch dropping the entry of the key it could not refresh.
fetchFailedEvicts(iv) ==
    [iv |-> [iv EXCEPT !.status = "done",
                       !.result = IF iv.cached.has THEN iv.cached.data ELSE Null],
     write |-> TRUE,
     entry |-> Undefined]

\* The catch branch: warn, return cached ? cached.data : null; no cache
\* write, nothing rethrown.
fetchFailed(iv) ==
    [iv |-> [iv EXCEPT !.status = "done",
                       !.result = IF iv.cached.has THEN iv.cached.data ELSE Null],
     write |-> FALSE,
     entry |-> Undefined]

(* ----------------------------- getRepoStats ---------------------------- *)

\* new Date(ms).toLocaleDateString(): the calendar day of a timestamp.
toLocaleDateString(ms) == <<"day", ms \div MsPerDay>>

\* Math.round(x / 1024) for x >= 0
RoundDiv1024(x) == (2 * x + 1024) \div 2048

\* getRepoStats after its await: null when the repository fetch gave null,
\* otherwise the projection of the repository JSON.
getRepoStats(repo) ==
    IF IsNull(repo) THEN Null
    ELSE [kind |-> "stats",
          stars |-> repo.stargazers_count,
          forks |-> repo.forks_count,
          issues |-> repo.open_issues_count,
          language |-> repo.language,
          lastUpdated |-> toLocaleDateString(repo.updated_at),
          size |-> RoundDiv1024(repo.size)]

(* --------------------------------- DOM --------------------------------- *)

\* String.prototype.includes on character sequences.
Includes(s, sub) ==
    \E i \in 0..(Len(s) - Len(sub)) : SubSeq(s, i + 1, i + Len(sub)) = sub

\* A .card element: href of its first GitHub link (<<>> when it has none),
\* whether it has a .badges child, and its .repo-stats children in document
\* order, each the sequence of its child elements.
Card(href, badges) == [href |-> href, badges |-> badges, regions |-> <<>>]
HrefOf(name) == <<"g", "/">> \o name

\* <div class="stats-row"> with its four stat-item spans.
StatsRow(stats) ==
    [class |-> "stats-row", stars |-> stats.stars, forks |-> stats.forks,
     issues |-> stats.issues, lastUpdated |-> stats.lastUpdated]

\* <div class="release-info"> after its innerHTML was set.
ReleaseInfo(release) ==
    [class |-> "release-info", tag |-> release.tag_name,
     date |-> toLocaleDateString(release.published_at)]

\* The card search starting from the first card instead of from null.
FindCardOrFirst(cards, repoName) ==
    LET hits == {i \in 1..Len(cards) :
                    cards[i].href # <<>> /\ Includes(cards[i].href, repoName)}
    IN IF hits = {} THEN (IF Len(cards) > 0 THEN 1 ELSE 0)
       ELSE CHOOSE i \in hits : \A j \in hits : j <= i

\* cards.forEach(...): the last card whose GitHub link includes repoName; 0
\* when there is none.
FindCard(cards, repoName) ==
    LET hits == {i \in 1..Len(cards) :
                    cards[i].href # <<>> /\ Includes(cards[i].href, repoName)}
    IN IF hits = {} THEN 0 ELSE CHOOSE i \in hits : \A j \in hits : j <= i

\* Positions <<r, j>> of the .release-info elements attached to the card.
ReleasePositions(regions) ==
    {p \in (1..Len(regions)) \X (1..3) :
        p[2] <= Len(regions[p[1]]) /\ regions[p[1]][p[2]].class = "release-info"}

\* targetCard.querySelector('.release-info'): first in document order.
FirstRelease(regions) ==
    CHOOSE p \in ReleasePositions(regions) :
        \A q \in ReleasePositions(regions) :
            p[1] < q[1] \/ (p[1] = q[1] /\ p[2] <= q[2])

\* updateCardWithStats creating a new container on every call instead of
\* reusing the card's .repo-stats.
updateCardWithStatsNoReuse(cards, repoName, stats, release, tt) ==
    LET t == FindCard(cards, repoName) IN
    IF t = 0 \/ IsNull(stats) \/ tt \/ ~cards[t].badges THEN [cards |-> cards, threw |-> tt]
    ELSE LET row == <<StatsRow(stats)>>
             region == IF IsNull(release) THEN row ELSE Append(row, ReleaseInfo(release))
         IN [cards |-> [cards EXCEPT ![t].regions = <<region>> \o @], threw |-> FALSE]

\* updateCardWithStats on the list of cards. tt: the page enforces Trusted
\* Types, so assigning a string to innerHTML throws. Returns the cards and
\* whether the call threw.
updateCardWithStats(cards, repoName, stats, release, tt) ==
    LET t == FindCard(cards, repoName) IN
    IF t = 0 \/ IsNull(stats) THEN [cards |-> cards, threw |-> FALSE]
    ELSE
      LET card == cards[t]
          found == Len(card.regions) > 0
          attached == found \/ card.badges
          \* a new container is inserted right after .badges
          regs1 == IF found \/ ~card.badges THEN card.regions ELSE << <<>> >>
          \* statsContainer.innerHTML = `<div class="stats-row">...`
          regs2 == IF attached THEN [regs1 EXCEPT ![1] = <<StatsRow(stats)>>] ELSE regs1
          regs3 == IF IsNull(release) \/ ~attached THEN regs2
                   ELSE IF ReleasePositions(regs2) = {}
                        THEN [regs2 EXCEPT ![1] = Append(@, ReleaseInfo(release))]
                        ELSE LET p == FirstRelease(regs2)
                             IN [regs2 EXCEPT ![p[1]][p[2]] = ReleaseInfo(release)]
      IN IF tt THEN [cards |-> [cards EXCEPT ![t].regions = regs1], threw |-> TRUE]
         ELSE [cards |-> [cards EXCEPT ![t].regions = regs3], threw |-> FALSE]

\* results.forEach(({repoName, stats, release}) => updateCardWithStats(...)):
\* in list order; an exception ends the loop.
RECURSIVE ApplyFrom(_, _, _, _)
ApplyFrom(cards, results, i, tt) ==
    IF i > Len(results) THEN [cards |-> cards, threw |-> FALSE]
    ELSE LET r == updateCardWithStats(cards, results[i].repoName,
                                      results[i].stats, results[i].release, tt)
         IN IF r.threw THEN r ELSE ApplyFrom(r.cards, results, i + 1, tt)

\* The results applied from the last to the first.
ApplyResultsBackwards(cards, results, tt) ==
    ApplyFrom(cards, [i \in 1..Len(results) |-> results[Len(results) + 1 - i]], 1, tt)

ApplyResults(cards, results, tt) == ApplyFrom(cards, results, 1, tt)

(* -------------------------------- footer ------------------------------- *)

\* timeAgo with a singular form for one unit.
timeAgoSingular(date, t) ==
    LET diffInSeconds == (t - date) \div 1000 IN
    IF diffInSeconds < 60 THEN [n |-> 0, text |-> "just now"]
    ELSE IF diffInSeconds < 120 THEN [n |-> 1, text |-> " minute ago"]
    ELSE IF diffInSeconds < 3600 THEN [n |-> diffInSeconds \div 60, text |-> " minutes ago"]
    ELSE IF diffInSeconds < 7200 THEN [n |-> 1, text |-> " hour ago"]
    ELSE IF diffInSeconds < 86400 THEN [n |-> diffInSeconds \div 3600, text |-> " hours ago"]
    ELSE IF diffInSeconds < 172800 THEN [n |-> 1, text |-> " day ago"]
    ELSE [n |-> diffInSeconds \div 86400, text |-> " days ago"]

\* timeAgo(date) evaluated when the clock reads t.
timeAgo(date, t) ==
    LET diffInSeconds == (t - date) \div 1000 IN
    IF diffInSeconds < 60 THEN [n |-> 0, text |-> "just now"]
    ELSE IF diffInSeconds < 3600 THEN [n |-> diffInSeconds \div 60, text |-> " minutes ago"]
    ELSE IF diffInSeconds < 86400 THEN [n |-> diffInSeconds \div 3600, text |-> " hours ago"]
    ELSE [n |-> diffInSeconds \div 86400, text |-> " days ago"]

\* sha.substring(0, 7)
Substring07(sha) == SubSeq(sha, 1, IF Len(sha) < 7 THEN Len(sha) ELSE 7)

\* The <p class="last-commit"> after its innerHTML was set.
CommitLine(commit, t) ==
    [label |-> timeAgo(commit.date, t), href |-> commit.sha, text |-> Substring07(commit.sha)]
\* A <p class="last-commit"> that was created but never filled.
EmptyLine == [label |-> [n |-> 0, text |-> ""], href |-> <<>>, text |-> <<>>]

\* updateFooterWithLastCommit writing an empty line when there is no commit.
updateFooterBlanksOnNull(footer, commits, threw, t, tt) ==
    IF ~footer.exists THEN footer
    ELSE IF threw \/ IsNull(commits) \/ Len(commits.list) = 0
         THEN [footer EXCEPT !.lines = <<EmptyLine>>]
         ELSE [footer EXCEPT !.lines = <<CommitLine(commits.list[1], t)>>]

\* updateFooterWithLastCommit after its await. footer: whether .site-footer
\* exists and its .last-commit children; threw: the awaited fetchWithCache
\* rejected. Every exception is caught inside (console.warn).
updateFooterWithLastCommit(footer, commits, threw, t, tt) ==
    IF threw \/ IsNull(commits) \/ Len(commits.list) = 0 \/ ~footer.exists THEN footer
    ELSE LET lines1 == IF Len(footer.lines) = 0 THEN <<EmptyLine>> ELSE footer.lines
         IN IF tt THEN [footer EXCEPT !.lines = lines1]
            ELSE [footer EXCEPT !.lines = [lines1 EXCEPT ![1] = CommitLine(commits.list[1], t)]]

(* ----------------------------- the program ----------------------------- *)

\* Update cycles: 0 is the one init starts, c >= 1 the c-th timer callback.
\* The n-th callback cannot run before n intervals have passed.
MaxTicks == MaxTime \div Interval
Cycles == 0..MaxTicks

VARIABLES
    now,          \* Date.now()
    cache,        \* this.cache: key -> {data, timestamp} or undefined
    inv,          \* per cycle and key: the fetchWithCache invocation (its locals)
    cyc,          \* per cycle: state of the two updater promises
    dom,          \* the page: .card elements and .site-footer
    trustedTypes, \* the page's CSP makes innerHTML assignments throw
    repoNames,    \* the tracked names (const repoNames in updateRepositoryCards)
    initState,    \* where init() is: start, awaiting, ok (timer armed), failed
    timer,        \* the setInterval timer: armed, and the time it is next due
    ticks,        \* timer callbacks run so far
    step          \* what the last step did: returns of fetchWithCache, renders

vars == <<now, cache, inv, cyc, dom, trustedTypes, repoNames, initState, timer, ticks, step>>

\* Page layouts: every tracked project has a card with badges; or the last
\* tracked project's card has no .badges element; or the last tracked project
\* has no card and the page has no footer; or the first with Trusted Types
\* enforced.
Layouts == {"badges", "nobadges", "nocard", "trusted"}

CardsOf(layout, names) ==
    LET n == IF layout = "nocard" THEN Len(names) - 1 ELSE Len(names) IN
    [i \in 1..n |-> Card(HrefOf(names[i]), i < Len(names) \/ layout # "nobadges")]

NoStep == [ret |-> {}, began |-> -1, cacheBefore |-> <<>>, fetched |-> <<>>,
           applied |-> <<>>, cardsBefore |-> <<>>, footerRan |-> FALSE,
           footerBefore |-> <<>>]

InitWith(names, layouts) ==
    /\ now = 0
    /\ cache = [k \in KeysOf(names) |-> Undefined]
    /\ inv = [c \in Cycles |-> [k \in KeysOf(names) |-> Idle]]
    /\ cyc = [c \in Cycles |-> [cards |-> "idle", footer |-> "idle"]]
    /\ repoNames = names
    /\ \E layout \in layouts :
          /\ dom = [cards |-> CardsOf(layout, names),
                    footer |-> [exists |-> layout # "nocard", lines |-> <<>>]]
          /\ trustedTypes = (layout = "trusted")
    /\ initState = "start"
    /\ timer = [armed |-> FALSE, deadline |-> 0]
    /\ ticks = 0
    /\ step = NoStep

\* One tracked project, which has a card.
Init == InitWith(SubSeq(AllRepoNames, 1, 1), Layouts \ {"nocard"})

CardKeys == CardKeysOf(repoNames)
Keys == KeysOf(repoNames)

\* A returned invocation waiting for its caller's Promise.all: only its
\* result is still used.
Settled(iv) == [Idle EXCEPT !.status = iv.status, !.result = iv.result, !.threw = iv.threw]

\* A project without a release counted as failed: both fields null.
ResultsNeedRelease(ivs) ==
    [i \in 1..Len(repoNames) |->
        LET repo == ivs[RepoKey(repoNames[i])]
            rel == ivs[ReleaseKey(repoNames[i])]
        IN [repoName |-> repoNames[i],
            stats |-> IF IsNull(rel.result) THEN Null ELSE getRepoStats(repo.result),
            release |-> rel.result]]

\* The fan-in failing as a whole: one project without stats leaves every
\* project without stats.
ResultsAllOrNothing(ivs) ==
    LET failed == \E i \in 1..Len(repoNames) :
                      IsNull(ivs[RepoKey(repoNames[i])].result)
    IN [i \in 1..Len(repoNames) |->
           [repoName |-> repoNames[i],
            stats |-> IF failed THEN Null
                      ELSE getRepoStats(ivs[RepoKey(repoNames[i])].result),
            release |-> ivs[ReleaseKey(repoNames[i])].result]]

\* const results = await Promise.all(promises): one {repoName, stats, release}
\* per tracked name, in list order. A rejected release fetch gives release
\* null (.catch(() => null)); a rejected repository fetch is caught by the
\* callback's try and gives stats and release null.
Results(ivs) ==
    [i \in 1..Len(repoNames) |->
        LET repo == ivs[RepoKey(repoNames[i])]
            rel == ivs[ReleaseKey(repoNames[i])]
        IN [repoName |-> repoNames[i],
            stats |-> IF repo.threw THEN Null ELSE getRepoStats(repo.result),
            release |-> IF repo.threw \/ rel.threw THEN Null ELSE rel.result]]

\* init continuing as soon as the card updater is done, without waiting for
\* the footer updater.
InitOutcomeIgnoresFooter(cs, fs) ==
    IF cs = "rejected" THEN "failed"
    ELSE IF cs = "resolved" THEN "ok"
    ELSE "awaiting"

\* init's await Promise.all([updateRepositoryCards(), updateFooterWithLastCommit()])
\* given the state of the two promises: rejected as soon as one is rejected
\* (catch: console.error, no timer), fulfilled when both are (setInterval).
InitOutcome(cs, fs) ==
    IF cs = "rejected" \/ fs = "rejected" THEN "failed"
    ELSE IF cs = "resolved" /\ fs = "resolved" THEN "ok"
    ELSE "awaiting"

\* The return of one fetchWithCache invocation, as the step variable records
\* it: its cycle and key, what became of its live call (none was made, ok,
\* failed), what it returned or that it threw, its locals now and cached, and
\* the cache entry of its key before the step. (The step variable also
\* records, when the card updater got past its Promise.all, what each of the
\* cycle's fetchWithCache calls had returned, the results applied and the
\* cards before.)
ReturnEvent(c, k, iv, live) ==
    [cycle |-> c, key |-> k, live |-> live, result |-> iv.result, threw |-> iv.threw,
     now |-> iv.now, cached |-> iv.cached, pre |-> cache[k]]

\* The microtasks that follow when invocations of cycle c have returned (ivs:
\* the cycle's invocations now; cs, fs: its two updaters before): the footer
\* updater renders when its fetch has returned, the card updater renders all
\* cards when every fetch of the cycle has returned, and init continues when
\* its Promise.all settles.
Continue(c, ivs, cs, fs, evs, began) ==
    LET cardsNow == cs = "running" /\ \A k \in CardKeys : ivs[k].status = "done"
        footNow == fs = "running" /\ ivs[LastCommitKey].status = "done"
        results == Results(ivs)
        cr == ApplyResults(dom.cards, results, trustedTypes)
        fr == updateFooterWithLastCommit(dom.footer, ivs[LastCommitKey].result,
                                         ivs[LastCommitKey].threw, now, trustedTypes)
        cs2 == IF cardsNow THEN (IF cr.threw THEN "rejected" ELSE "resolved") ELSE cs
        fs2 == IF footNow THEN "resolved" ELSE fs
    IN /\ dom' = [cards |-> IF cardsNow THEN cr.cards ELSE dom.cards,
                  footer |-> IF footNow THEN fr ELSE dom.footer]
       /\ cyc' = [cyc EXCEPT ![c] = [cards |-> cs2, footer |-> fs2]]
       /\ inv' = [inv EXCEPT ![c] =
                    [k \in Keys |->
                        IF k = LastCommitKey
                        THEN (IF footNow THEN Idle ELSE ivs[k])
                        ELSE IF cardsNow THEN Idle
                        ELSE IF ivs[k].status = "done" THEN Settled(ivs[k])
                        ELSE ivs[k]]]
       /\ initState' = IF c = 0 /\ initState \in {"start", "awaiting"}
                       THEN InitOutcome(cs2, fs2)
                       ELSE initState
       /\ step' = [ret |-> evs,
                   began |-> began,
                   cacheBefore |-> IF began >= 0 THEN cache ELSE <<>>,
                   fetched |-> IF cardsNow THEN [k \in CardKeys |-> ivs[k].result]
                               ELSE <<>>,
                   applied |-> IF cardsNow THEN results ELSE <<>>,
                   cardsBefore |-> IF cardsNow THEN dom.cards ELSE <<>>,
                   footerRan |-> footNow,
                   footerBefore |-> IF footNow THEN dom.footer.lines ELSE <<>>]

\* setInterval with a delay shorter than the cache's TTL.
ArmTimerShort ==
    timer' = IF initState # "ok" /\ initState' = "ok"
             THEN [armed |-> TRUE, deadline |-> now + TimeStep]
             ELSE timer

\* setInterval(callback, 5 * 60 * 1000) once init's try block gets past the await.
ArmTimer ==
    timer' = IF initState # "ok" /\ initState' = "ok"
             THEN [armed |-> TRUE, deadline |-> now + Interval]
             ELSE timer

\* The synchronous part of updateRepositoryCards() followed by
\* updateFooterWithLastCommit(): every fetchWithCache of the cycle runs up to
\* its await at the same clock reading.
Begin(c) ==
    LET ivs == [k \in Keys |-> fetchWithCache(k, now, cache)]
        evs == {ReturnEvent(c, k, ivs[k], "none") : k \in {x \in Keys : ivs[x].status = "done"}}
    IN Continue(c, ivs, "running", "running", evs, c)

\* DOMContentLoaded: new GitHubIntegration(...).init()
init ==
    /\ initState = "start"
    /\ Begin(0)
    /\ ArmTimer
    /\ UNCHANGED <<now, cache, trustedTypes, repoNames, ticks>>

\* The next time a repeating timer that was due at `due` and ran at t is due:
\* either a full interval after it ran, or on the original grid.
NextDue(due, t) == {t + Interval, t + (Interval - ((t - due) % Interval))}

\* A timer that is not repeated (setTimeout in place of setInterval).
RearmOneShot(tm, t) == {[armed |-> FALSE, deadline |-> tm.deadline]}

\* The timer after its callback ran at time t: setInterval repeats it, and
\* nothing in the class clears it.
Rearm(tm, t) == {[armed |-> TRUE, deadline |-> d] : d \in NextDue(tm.deadline, t)}

\* The setInterval callback: this.updateRepositoryCards();
\* this.updateFooterWithLastCommit(); it may run late, never early.
Tick ==
    /\ timer.armed
    /\ now >= timer.deadline
    /\ ticks < MaxTicks
    /\ ticks' = ticks + 1
    /\ Begin(ticks + 1)
    /\ timer' \in Rearm(timer, now)
    /\ UNCHANGED <<now, cache, trustedTypes, repoNames>>

\* A request of cycle c for key k is answered 2xx with a JSON body.
ResponseOk(c, k) ==
    /\ inv[c][k].status = "inflight"
    /\ LET r == fetchSucceeded(inv[c][k], Upstream(k, inv[c][k].now))
           ivs == [inv[c] EXCEPT ![k] = r.iv]
       IN /\ cache' = IF r.write THEN [cache EXCEPT ![k] = r.entry] ELSE cache
          /\ Continue(c, ivs, cyc[c].cards, cyc[c].footer,
                      {ReturnEvent(c, k, r.iv, "ok")}, -1)
    /\ ArmTimer
    /\ UNCHANGED <<now, trustedTypes, repoNames, ticks>>

\* A request of cycle c for key k fails: network error, non-2xx status or a
\* body that is not JSON.
ResponseFail(c, k) ==
    /\ inv[c][k].status = "inflight"
    /\ LET r == fetchFailed(inv[c][k])
           ivs == [inv[c] EXCEPT ![k] = r.iv]
       IN /\ cache' = IF r.write THEN [cache EXCEPT ![k] = r.entry] ELSE cache
          /\ Continue(c, ivs, cyc[c].cards, cyc[c].footer,
                      {ReturnEvent(c, k, r.iv, "failed")}, -1)
    /\ ArmTimer
    /\ UNCHANGED <<now, trustedTypes, repoNames, ticks>>

\* Time passes (the page is ready at time 0).
ClockAdvance ==
    /\ initState # "start"
    /\ now + TimeStep <= MaxTime
    /\ now' = now + TimeStep
    /\ step' = NoStep
    /\ UNCHANGED <<cache, inv, cyc, dom, trustedTypes, repoNames, initState, timer, ticks>>

Next ==
    \/ init
    \/ Tick
    \/ \E c \in Cycles, k \in Keys : ResponseOk(c, k)
    \/ \E c \in Cycles, k \in Keys : ResponseFail(c, k)
    \/ ClockAdvance

Spec == Init /\ [][Next]_vars

(* ----------------------- the footer's time label ------------------------ *)

\* Commit ages reach this many minutes, hours and days.
MaxAgeUnits == 3
\* Ages in seconds: around every whole number of minutes, hours and days up to
\* the bound, a few seconds, and a commit dated after the clock reading.
Ages ==
    {u * m + o : u \in {60, 3600, 86400}, m \in 1..MaxAgeUnits, o \in {-1, 0, 1}}
        \cup {-30, 0, 45, 90}
\* commit.author.date of the commit whose age is rendered.
CommitEpoch == 10 * MsPerDay

\* The page at the moment the footer updater is called with the commit list
\* in the cache: the clock reads some age past the commit date, to the
\* millisecond.
InitTimeAgo ==
    /\ now \in {CommitEpoch + 1000 * a + ms : a \in Ages, ms \in {0, 999}}
    /\ repoNames = SubSeq(AllRepoNames, 1, 1)
    /\ cache = [k \in KeysOf(repoNames) |->
                   IF k = LastCommitKey
                   THEN Entry([kind |-> "commits",
                               list |-> << [sha |-> ShaOf(1), date |-> CommitEpoch] >>], now)
                   ELSE Undefined]
    /\ inv = [c \in Cycles |-> [k \in KeysOf(repoNames) |-> Idle]]
    /\ cyc = [c \in Cycles |-> [cards |-> "idle", footer |-> "idle"]]
    /\ dom = [cards |-> CardsOf("badges", repoNames),
              footer |-> [exists |-> TRUE, lines |-> <<>>]]
    /\ trustedTypes = FALSE
    /\ initState = "start"
    /\ timer = [armed |-> FALSE, deadline |-> 0]
    /\ ticks = 0
    /\ step = NoStep

\* updateFooterWithLastCommit() served from the cache: timeAgo is evaluated
\* at the current clock reading and the line is written.
FooterFromCache ==
    /\ dom.footer.lines = <<>>
    /\ LET iv == fetchWithCache(LastCommitKey, now, cache)
       IN /\ iv.status = "done"
          /\ dom' = [dom EXCEPT !.footer =
                        updateFooterWithLastCommit(dom.footer, iv.result, iv.threw,
                                                   now, trustedTypes)]
    /\ UNCHANGED <<now, cache, inv, cyc, trustedTypes, repoNames, initState, timer,
                   ticks, step>>

SpecTimeAgo == InitTimeAgo /\ [][FooterFromCache]_vars

(* ------------------- two tracked projects, first cycles ----------------- *)

\* The clock advances this many times while two projects are tracked.
MaxClockCards == 2
MaxTimeCards == MaxClockCards * TimeStep

\* Two tracked projects on any of the page layouts.
InitCards == InitWith(SubSeq(AllRepoNames, 1, 2), Layouts)

TickCards ==
    /\ ticks < MaxTimeCards \div Interval
    /\ Tick

ClockAdvanceCards ==
    /\ now + TimeStep <= MaxTimeCards
    /\ ClockAdvance

NextCards ==
    \/ init
    \/ TickCards
    \/ \E c \in Cycles, k \in Keys : ResponseOk(c, k)
    \/ \E c \in Cycles, k \in Keys : ResponseFail(c, k)
    \/ ClockAdvanceCards

SpecCards == InitCards /\ [][NextCards]_vars

(* ------------------------------- claims -------------------------------- *)

\* The entry was younger than the TTL when the invocation read the clock.
YoungerThanTTL(entry, t) == entry.has /\ t - entry.timestamp < cacheExpiry

\* C1 (cache hit): a fetchWithCache call that finds an entry with
\* now - timestamp < TTL under its key makes no network request, returns the
\* data of that entry, and leaves the whole cache table as it was.
C1_CacheHit ==
    /\ \A c \in Cycles, k \in Keys :
          inv[c][k].status = "inflight" => ~YoungerThanTTL(inv[c][k].cached, inv[c][k].now)
    /\ \A e \in step.ret :
          YoungerThanTTL(e.cached, e.now) =>
              /\ e.live = "none"
              /\ ~e.threw
              /\ e.cached = e.pre
              /\ e.result = e.pre.data
              /\ step.began = e.cycle
              /\ cache = step.cacheBefore

\* A cycle that began 150 s after the entries were written is served from
\* the cache.
C1_Witness ==
    \E e \in step.ret :
        /\ e.live = "none"
        /\ e.cached.has
        /\ e.now - e.cached.timestamp = TimeStep
        /\ e.result = cache[e.key].data

\* C2 (cache expiry): a fetchWithCache call that finds no entry, or one with
\* now - timestamp >= TTL, issues a network request; when that request
\* succeeds the entry of the key becomes {response data, time the request
\* was issued} and the response data is returned.
C2_CacheExpiry ==
    /\ step.began >= 0 =>
          \A k \in Keys :
              ~YoungerThanTTL(step.cacheBefore[k], now) =>
                  /\ inv[step.began][k].status = "inflight"
                  /\ inv[step.began][k].now = now
    /\ \A e \in step.ret :
          e.live = "ok" =>
              /\ ~YoungerThanTTL(e.cached, e.now)
              /\ ~e.threw
              /\ e.result = Upstream(e.key, e.now)
              /\ cache[e.key] = [has |-> TRUE, data |-> e.result, timestamp |-> e.now]

\* An entry exactly as old as the TTL is replaced by a successful fetch.
C2_Witness ==
    \E e \in step.ret :
        /\ e.live = "ok"
        /\ e.cached.has
        /\ e.now - e.cached.timestamp = cacheExpiry
        /\ cache[e.key].timestamp = e.now
        /\ cache[e.key].data # e.cached.data

\* C3 (fallback on failure): when the live call of an invocation fails and
\* the key had an entry when the invocation started, however old, the
\* invocation returns that entry's data, not null, and the cache entry of the
\* key is not modified.
C3_FallbackOnFailure ==
    \A e \in step.ret :
        (e.live = "failed" /\ e.cached.has) =>
            /\ ~e.threw
            /\ e.result = e.cached.data
            /\ ~IsNull(e.result)
            /\ cache[e.key] = e.pre

\* A failed fetch falls back to an entry twice as old as the TTL.
C3_Witness ==
    \E e \in step.ret :
        /\ e.live = "failed"
        /\ e.cached.has
        /\ now - e.cached.timestamp >= 2 * cacheExpiry
        /\ e.result = e.cached.data

\* C4 (cold failure): when the live call fails and the key had no entry, the
\* invocation returns null, creates no entry and does not throw; getRepoStats
\* then returns null for the project.
C4_ColdFailure ==
    \A e \in step.ret :
        (e.live = "failed" /\ ~e.cached.has) =>
            /\ ~e.threw
            /\ IsNull(e.result)
            /\ cache[e.key] = e.pre
            /\ (~e.pre.has => ~cache[e.key].has)
            /\ (e.key[1] = "repo" => IsNull(getRepoStats(e.result)))

\* A repository fetch fails while the cache has nothing for it.
C4_Witness ==
    \E e \in step.ret :
        /\ e.live = "failed"
        /\ ~e.cached.has
        /\ e.key[1] = "repo"
        /\ ~cache[e.key].has
        /\ IsNull(e.result)

\* C5 (freshness): data returned from the cache table is younger than the TTL
\* at the moment it is returned unless the live call of the returning
\* invocation failed; an invocation that made no live call returns the data
\* of an entry younger than the TTL.
C5_Freshness ==
    \A e \in step.ret :
        /\ e.live = "none" =>
              e.cached.has /\ e.result = e.cached.data /\ now - e.cached.timestamp < cacheExpiry
        /\ (e.live # "ok" /\ e.cached.has /\ e.result = e.cached.data
                /\ now - e.cached.timestamp >= cacheExpiry) => e.live = "failed"

\* Stale data is returned by an invocation whose live call failed.
C5_Witness ==
    \E e \in step.ret :
        /\ e.live = "failed"
        /\ e.cached.has
        /\ e.result = e.cached.data
        /\ now - e.cached.timestamp >= cacheExpiry

\* C6 as claimed (no same-key overlap): at no time are two fetchWithCache
\* invocations for the same key in flight.
C6_NoSameKeyOverlap ==
    \A k \in Keys : \A c1, c2 \in Cycles :
        (inv[c1][k].status = "inflight" /\ inv[c2][k].status = "inflight") => c1 = c2

\* C6 as amended: the cycle init starts never overlaps a periodic one: while
\* one of its updaters is running or one of its fetches is in flight the timer
\* is not armed and no tick has run. (Periodic cycles do overlap.)
C6_InitCycleNeverOverlaps ==
    (\/ cyc[0].cards = "running"
     \/ cyc[0].footer = "running"
     \/ \E k \in Keys : inv[0][k].status = "inflight")
        => (~timer.armed /\ ticks = 0 /\ \A c \in 1..MaxTicks : cyc[c].cards = "idle")

\* The first tick starts its fetches after every fetch of init's cycle has
\* returned; and a second tick starts while a fetch of the first is in flight.
C6_Witness ==
    /\ step.began = 2
    /\ cyc[0].cards = "resolved" /\ cyc[0].footer = "resolved"
    /\ \E k \in Keys : inv[1][k].status = "inflight" /\ inv[2][k].status = "inflight"

\* C7 as claimed (init failure does not disarm the schedule): when init's
\* catch has run, the periodic timer is armed all the same.
C7_InitFailureStillArms == initState = "failed" => timer.armed

\* C8 (periodic refresh): once armed the timer stays armed; every tick has
\* started both updaters (each calls fetchWithCache for its keys); and a tick
\* that is due can run whatever happened in earlier cycles.
C8_PeriodicRefresh ==
    /\ (initState = "ok" \/ ticks > 0) => timer.armed
    /\ \A c \in 1..ticks : cyc[c].cards # "idle" /\ cyc[c].footer # "idle"
    /\ step.began >= 1 =>
          /\ step.began = ticks
          /\ \A k \in Keys :
                \/ inv[ticks][k].status = "inflight"
                \/ \E e \in step.ret : e.cycle = ticks /\ e.key = k
    /\ (timer.armed /\ now >= timer.deadline /\ ticks < MaxTicks) => ENABLED Tick

\* The second tick starts both updaters although the card updater of the
\* first cycle was rejected.
C8_Witness ==
    /\ step.began = 2
    /\ cyc[1].cards = "rejected"
    /\ cyc[2].cards = "running" /\ cyc[2].footer = "running"
    /\ timer.armed

\* Number of children of a stats region with the given class.
CountClass(region, cls) == Cardinality({j \in 1..Len(region) : region[j].class = cls})

\* The card shows exactly one stats region with one stats row and at most one
\* release sub-region, exactly one if a release was given.
RenderedOnce(card, release) ==
    /\ Len(card.regions) = 1
    /\ CountClass(card.regions[1], "stats-row") = 1
    /\ CountClass(card.regions[1], "release-info") <= 1
    /\ (~IsNull(release) => CountClass(card.regions[1], "release-info") = 1)

\* C9 as claimed (idempotent render): after updateCardWithStats was applied
\* with some stats and release, applying it again with the same values changes
\* nothing, and the card shows exactly one stats region, one stats row and at
\* most one release sub-region; for every card.
C9_IdempotentRenderEveryCard ==
    (step.applied # <<>> /\ ~trustedTypes) =>
        /\ ApplyResults(dom.cards, step.applied, trustedTypes).cards = dom.cards
        /\ \A i \in 1..Len(step.applied) :
              LET r == step.applied[i]
                  t == FindCard(dom.cards, r.repoName)
              IN (t # 0 /\ ~IsNull(r.stats)) => RenderedOnce(dom.cards[t], r.release)

\* C9 as amended: the same for every card that has a .badges element or
\* already had a stats region; a card with neither is left unchanged, without
\* a stats region, by both applications.
C9_IdempotentRender ==
    (step.applied # <<>> /\ ~trustedTypes) =>
        /\ ApplyResults(dom.cards, step.applied, trustedTypes).cards = dom.cards
        /\ \A i \in 1..Len(step.applied) :
              LET r == step.applied[i]
                  t == FindCard(dom.cards, r.repoName)
              IN (t # 0 /\ ~IsNull(r.stats)) =>
                    IF step.cardsBefore[t].badges \/ step.cardsBefore[t].regions # <<>>
                    THEN RenderedOnce(dom.cards[t], r.release)
                    ELSE dom.cards[t] = step.cardsBefore[t] /\ dom.cards[t].regions = <<>>

\* A card that already showed these stats and this release is rendered with
\* them again.
C9_Witness ==
    /\ step.applied # <<>>
    /\ ~trustedTypes
    /\ \E i \in 1..Len(step.applied) :
          LET r == step.applied[i]
              t == FindCard(dom.cards, r.repoName)
          IN /\ t # 0
             /\ ~IsNull(r.stats)
             /\ ~IsNull(r.release)
             /\ step.cardsBefore[t].regions # <<>>
             /\ dom.cards[t] = step.cardsBefore[t]
             /\ dom.cards[t].regions[1] = <<StatsRow(r.stats), ReleaseInfo(r.release)>>

\* C10 as claimed (footer untouched on failure): when the commit-list fetch
\* of the footer updater fails, with or without a cached list, the footer's
\* last-commit line is as it was before and the updater is not rejected.
C10_FooterUntouchedOnFailure ==
    \A e \in step.ret :
        (e.key = LastCommitKey /\ e.live = "failed") =>
            /\ step.footerRan
            /\ dom.footer.lines = step.footerBefore
            /\ cyc[e.cycle].footer = "resolved"

\* C10 as amended: the footer is left as it was when the fetch fails and no
\* cached list existed when the invocation started; when one existed, the
\* line is written again from the cached commit with the time label of the
\* moment. The updater is rejected in neither case.
C10_FooterOnFailure ==
    \A e \in step.ret :
        (e.key = LastCommitKey /\ e.live = "failed") =>
            /\ step.footerRan
            /\ cyc[e.cycle].footer = "resolved"
            /\ ~e.cached.has => dom.footer.lines = step.footerBefore
            /\ (e.cached.has /\ dom.footer.exists /\ ~trustedTypes) =>
                  dom.footer.lines = <<CommitLine(e.cached.data.list[1], now)>>

\* The commit fetch fails with nothing cached while the footer already shows
\* a commit line, which stays.
C10_Witness ==
    \E e \in step.ret :
        /\ e.key = LastCommitKey
        /\ e.live = "failed"
        /\ ~e.cached.has
        /\ step.footerBefore # <<>>
        /\ dom.footer.lines = step.footerBefore

\* The card has a place for a stats region: a .badges element to insert it
\* after, or a .repo-stats element already there.
HasRegionPlace(card) == card.badges \/ card.regions # <<>>

HasCard(cards, name) ==
    \E t \in 1..Len(cards) : cards[t].href # <<>> /\ Includes(cards[t].href, name)

\* C12 (missing card tolerance): when the card updater applies its results,
\* a project no card links to changes nothing: the page has the same cards,
\* every card that changed is linked to a project that has stats, and when
\* no project with stats has a card the cards are exactly as before and the
\* updater is not rejected (also where innerHTML assignments throw).
C12_MissingCard ==
    step.applied # <<>> =>
        LET carded == {i \in 1..Len(repoNames) :
                          /\ HasCard(step.cardsBefore, repoNames[i])
                          /\ ~IsNull(step.fetched[RepoKey(repoNames[i])])}
        IN /\ Len(dom.cards) = Len(step.cardsBefore)
           /\ \A t \in 1..Len(dom.cards) :
                 dom.cards[t] # step.cardsBefore[t] =>
                     \E i \in carded : Includes(dom.cards[t].href, repoNames[i])
           /\ carded = {} =>
                 /\ dom.cards = step.cardsBefore
                 /\ \A e \in step.ret : cyc[e.cycle].cards = "resolved"

\* The project without a card has stats and a release, the project with a
\* card has no stats: nothing on the page changes.
C12_Witness ==
    /\ step.applied # <<>>
    /\ \E i \in 1..Len(repoNames) :
          /\ ~HasCard(step.cardsBefore, repoNames[i])
          /\ ~IsNull(step.fetched[RepoKey(repoNames[i])])
          /\ ~IsNull(step.fetched[ReleaseKey(repoNames[i])])
    /\ \E i \in 1..Len(repoNames) :
          /\ HasCard(step.cardsBefore, repoNames[i])
          /\ IsNull(step.fetched[RepoKey(repoNames[i])])
    /\ dom.cards = step.cardsBefore
    /\ \A e \in step.ret : cyc[e.cycle].cards = "resolved"

\* C13 (time-ago buckets): with d the whole seconds between the commit date
\* and the clock reading, the label written is 'just now' when d < 60, the
\* whole minutes for 60 <= d < 3600, the whole hours for 3600 <= d < 86400 and
\* the whole days from there on, always with the plural word.
C13_TimeAgoBuckets ==
    dom.footer.lines # <<>> =>
        LET label == dom.footer.lines[1].label
            ms == now - cache[LastCommitKey].data.list[1].date
            \* unit: seconds per unit; the label counts whole units
            Whole(unit) == /\ label.n * unit * 1000 <= ms
                           /\ ms < (label.n + 1) * unit * 1000
        IN /\ ms < 60 * 1000 <=> label = [n |-> 0, text |-> "just now"]
           /\ (60 * 1000 <= ms /\ ms < 3600 * 1000) <=>
                 (label.text = " minutes ago" /\ Whole(60))
           /\ (3600 * 1000 <= ms /\ ms < 86400 * 1000) <=>
                 (label.text = " hours ago" /\ Whole(3600))
           /\ 86400 * 1000 <= ms <=> (label.text = " days ago" /\ Whole(86400))

\* A commit 90 seconds (and 999 ms) old is labelled '1 minutes ago'.
C13_Witness ==
    /\ dom.footer.lines # <<>>
    /\ now - cache[LastCommitKey].data.list[1].date = 90999
    /\ dom.footer.lines[1].label = [n |-> 1, text |-> " minutes ago"]

\* Tracked projects, by position in the list, that have a card and stats in
\* the results the card updater applied in the last step.
Writers ==
    {i \in 1..Len(repoNames) :
        /\ HasCard(step.cardsBefore, repoNames[i])
        /\ ~IsNull(step.fetched[RepoKey(repoNames[i])])}

\* The cards are written in list order: where the first write throws (the
\* page rejects innerHTML assignments), the card that was touched is the one
\* of the first project in the list that had something to write, and no
\* other card was.
WrittenInListOrder ==
    (step.applied # <<>> /\ trustedTypes /\ Writers # {}) =>
        LET first == CHOOSE i \in Writers : \A j \in Writers : i <= j
        IN /\ \A e \in step.ret : cyc[e.cycle].cards = "rejected"
           /\ \A t \in 1..Len(dom.cards) :
                 IF Includes(dom.cards[t].href, repoNames[first])
                 THEN dom.cards[t] # step.cardsBefore[t]
                 ELSE dom.cards[t] = step.cardsBefore[t]

\* C14 (fan-in, then ordered apply): a step changes a card only when the card
\* updater of a cycle gets past its Promise.all in that step, that is when
\* every repository and release fetch of every tracked project of that cycle
\* has returned, whichever returned last; and the writes are then made in the
\* order of the tracked list.
C14_FanInOrderedApply ==
    [][/\ dom'.cards # dom.cards =>
             /\ step'.applied # <<>>
             /\ step'.cardsBefore = dom.cards
             /\ \A e \in step'.ret : \A k \in CardKeys :
                   \/ inv[e.cycle][k].status = "done"
                   \/ \E f \in step'.ret : f.cycle = e.cycle /\ f.key = k
       /\ \A c \in Cycles :
             (\E k \in CardKeys : inv'[c][k].status = "inflight") =>
                 cyc'[c].cards = "running"
       /\ WrittenInListOrder']_vars

\* The fetch that returns last is one of the first project: both projects
\* have stats, and of the two cards only the first was touched before the
\* write threw.
C14_Witness ==
    /\ step.applied # <<>>
    /\ trustedTypes
    /\ Writers = {1, 2}
    /\ \E e \in step.ret : e.key = RepoKey(repoNames[1])
    /\ dom.cards[1] # step.cardsBefore[1]
    /\ dom.cards[2] = step.cardsBefore[2]

C16_NonNullPermanent ==
    [][/\ \A k \in Keys :
             cache[k].has => (cache'[k].has /\ ~IsNull(cache'[k].data))
       /\ step'.began >= 0 =>
             \A k \in Keys :
                 cache[k].has =>
                     \/ inv'[step'.began][k].cached = cache[k]
                     \/ \E e \in step'.ret : e.key = k /\ e.cached = cache[k]
       /\ \A e \in step'.ret : e.cached.has => ~IsNull(e.result)]_vars

\* The second tick's fetch fails and returns what init's cycle stored, the
\* first tick's fetch having failed or being still in flight.
C16_Witness ==
    \E e \in step.ret :
        /\ e.cycle = 2
        /\ e.live = "failed"
        /\ e.cached.has
        /\ e.cached.timestamp = 0
        /\ ~IsNull(e.result)
        /\ e.result = Upstream(e.key, 0)

\* C17 as claimed (timestamp monotonicity): every cache write stores a
\* timestamp at least as large as the one of the entry it replaces.
C17_TimestampMonotone ==
    [][\A k \in Keys :
          (cache[k].has /\ cache'[k] # cache[k]) =>
              cache'[k].timestamp >= cache[k].timestamp]_vars

\* C18 as claimed (the returned value agrees with the cache): a non-null
\* value returned by fetchWithCache is the data the cache holds under the key
\* at the moment of the return, on the failure path too.
C18_ReturnAgreesWithCache ==
    \A e \in step.ret :
        ~IsNull(e.result) => (cache[e.key].has /\ e.result = cache[e.key].data)

\* C19 as claimed (scheduled cycles never hit the cache): no fetchWithCache
\* invocation made by init or by a timer callback is served from the cache.
C19_NeverHitsCache ==
    \A e \in step.ret : e.live # "none"

\* C19 as amended: every invocation made by init and by the first timer
\* callback finds its key absent or expired and issues a request; an
\* invocation of a later callback is served from the cache only with an entry
\* that a request of an earlier callback stamped less than one interval
\* before, the two callbacks having run less than 5 minutes apart.
C19_FirstCyclesNeverHit ==
    /\ step.began \in {0, 1} =>
          /\ \A k \in Keys : inv[step.began][k].status = "inflight"
          /\ \A k \in Keys : ~YoungerThanTTL(step.cacheBefore[k], now)
    /\ \A e \in step.ret :
          e.live = "none" =>
              /\ e.cycle >= 2
              /\ e.cached.timestamp >= Interval
              /\ e.now - e.cached.timestamp < Interval

\* The first callback ran 150 s late, the second on schedule, 150 s after
\* it: the second is served what the first one fetched.
C19_Witness ==
    \E e \in step.ret :
        /\ e.live = "none"
        /\ e.cycle = 2
        /\ e.now = 2 * Interval
        /\ e.cached.timestamp = Interval + TimeStep
        /\ e.result = Upstream(e.key, Interval + TimeStep)

\* C20 as claimed (the release display is never lost): a card with a .badges
\* element that shows a release line keeps showing one through every later
\* step, in particular when a later cycle renders the card again.
C20_ReleaseNeverLost ==
    [][\A t \in 1..Len(dom.cards) :
          (dom.cards[t].badges /\ ReleasePositions(dom.cards[t].regions) # {}) =>
              ReleasePositions(dom'.cards[t].regions) # {}]_vars

====
